---- MODULE Spec2Model ----
(***************************************************************************)
(* A model of the Boggle game manager (py_boggle/my_game_manager.py) and   *)
(* of its trie dictionary (py_boggle/trie_dictionary.py).                  *)
(*                                                                         *)
(* Characters are ASCII code points, strings are sequences of code points, *)
(* board positions are pairs <<row, col>> counted from 0 as in the source. *)
(***************************************************************************)
EXTENDS Integers, Sequences, FiniteSets, TLC

\* An Optional value: None, or Some(v) holding v.  Some(<<>>) is an empty
\* list that is not None.
None == <<>>
Some(v) == <<v>>

(***************************************************************************)
(* Characters and the string conversions of the source.                    *)
(***************************************************************************)
\* The code points of the characters the inputs are drawn from.
Ch == [sp |-> 32, A |-> 65, C |-> 67, S |-> 83, T |-> 84,
       a |-> 97, b |-> 98, c |-> 99, s |-> 115, t |-> 116]

\* str.lower() on one character: 'A'..'Z' are moved onto 'a'..'z'.
lower_char(c) == IF c >= 65 /\ c <= 90 THEN c + 32 ELSE c

\* str.lower()
lower(s) == [i \in 1..Len(s) |-> lower_char(s[i])]

\* The characters str.strip() removes: tab, newline, vertical tab, form
\* feed, carriage return and space.
IsSpace(c) == c \in {9, 10, 11, 12, 13, 32}

RECURSIVE lstrip(_)
lstrip(s) == IF s # <<>> /\ IsSpace(Head(s)) THEN lstrip(Tail(s)) ELSE s

RECURSIVE rstrip(_)
rstrip(s) ==
    IF s # <<>> /\ IsSpace(s[Len(s)]) THEN rstrip(SubSeq(s, 1, Len(s) - 1)) ELSE s

\* str.strip()
strip(s) == rstrip(lstrip(s))

(***************************************************************************)
(* TrieDictionary.  A TrieNode is identified by the path of letters that   *)
(* leads to it from the root (the root is <<>>).  A trie is a record       *)
(*   children : node -> the node's child letters, in insertion order       *)
(*              (a Python dict keeps its keys in insertion order),         *)
(*   is_word  : the set of nodes whose is_word flag is set.                *)
(***************************************************************************)
\* TrieDictionary.__init__: a root with no children, not a word.
EmptyTrie == [children |-> (<<>> :> <<>>), is_word |-> {}]

\* letter in node.children
HasChild(t, node, letter) == \E i \in 1..Len(t.children[node]) : t.children[node][i] = letter

\* The letter loop of load_dictionary from position i of word, at node.
RECURSIVE insert_from(_, _, _, _)
insert_from(t, node, word, i) ==
    IF i > Len(word)
    THEN [t EXCEPT !.is_word = @ \cup {node}]
    ELSE LET letter == word[i]
             child == Append(node, letter)
             t1 == IF HasChild(t, node, letter)
                   THEN t
                   ELSE [t EXCEPT !.children =
                            (child :> <<>>) @@ [@ EXCEPT ![node] = Append(@, letter)]]
         IN insert_from(t1, child, word, i + 1)

\* Mutant of load_line: the word is stored as typed, not lowercased.
load_line_as_typed(t, line) == insert_from(t, <<>>, strip(line), 1)

\* One line of the words file: strip, lowercase, insert, flag the last node.
load_line(t, line) == insert_from(t, <<>>, lower(strip(line)), 1)

\* load_dictionary on a readable file, given as its sequence of lines.
RECURSIVE load_lines(_, _, _)
load_lines(t, file, k) ==
    IF k > Len(file) THEN t ELSE load_lines(load_line(t, file[k]), file, k + 1)

load_dictionary(t, file) == load_lines(t, file, 1)

\* traverse: follow the lowercased prefix edge by edge; None at the first
\* letter that has no child.
RECURSIVE traverse_from(_, _, _, _)
traverse_from(t, node, s, i) ==
    IF i > Len(s) THEN Some(node)
    ELSE IF ~HasChild(t, node, s[i]) THEN None
    ELSE traverse_from(t, Append(node, s[i]), s, i + 1)

traverse(t, prefix) == traverse_from(t, <<>>, lower(prefix), 1)

is_prefix(t, prefix) == traverse(t, prefix) # None

contains(t, word) ==
    LET node == traverse(t, word) IN node # None /\ node[1] \in t.is_word

Range(f) == { f[i] : i \in DOMAIN f }

\* Mutant of sorted: the children are left in insertion order.
sorted_insertion_order(s) == s

\* sorted(node.children.items()): the child letters in increasing order.
RECURSIVE sorted(_)
sorted(s) ==
    IF s = <<>> THEN <<>>
    ELSE LET k == CHOOSE i \in 1..Len(s) : \A j \in 1..Len(s) : s[i] <= s[j]
             rest == [j \in 1..(Len(s) - 1) |-> IF j < k THEN s[j] ELSE s[j + 1]]
         IN <<s[k]>> \o sorted(rest)

\* __iter__'s dfs: the node's own word first, then each child in sorted order.
RECURSIVE iter_dfs(_, _, _)
RECURSIVE iter_children(_, _, _, _, _)
iter_children(t, node, prefix, letters, k) ==
    IF k > Len(letters) THEN <<>>
    ELSE iter_dfs(t, Append(node, letters[k]), Append(prefix, letters[k]))
            \o iter_children(t, node, prefix, letters, k + 1)

iter_dfs(t, node, prefix) ==
    (IF node \in t.is_word THEN <<prefix>> ELSE <<>>)
        \o iter_children(t, node, prefix, sorted(t.children[node]), 1)

\* __iter__: the words the iterator yields, in order.
iter(t) == iter_dfs(t, <<>>, <<>>)

(***************************************************************************)
(* MyGameManager: constants and the three searches.                        *)
(***************************************************************************)
SHORT == 3
CUBE_SIDES == 6

\* The neighbour offsets, in the order the three depth-first searches use.
Directions ==
    << <<-1, 0>>, <<1, 0>>, <<0, -1>>, <<0, 1>>,
       <<-1, -1>>, <<-1, 1>>, <<1, -1>>, <<1, 1>> >>

InBoard(size, r, c) == r >= 0 /\ r < size /\ c >= 0 /\ c < size

\* The in-board, unvisited neighbours of (row, col).
Neighbours(size, row, col, visited) ==
    { p \in { <<row + Directions[d][1], col + Directions[d][2]>> : d \in 1..8 } :
        InBoard(size, p[1], p[2]) /\ p \notin visited }

\* board_driven_search's dfs; found_words is returned as the set of the
\* strings the call and its recursive calls add.
RECURSIVE bds_dfs(_, _, _, _, _, _, _)

\* Mutant of bds_dfs: strings of SHORT letters are taken for words too.
bds_dfs_short_words(board, size, dict, row, col, current_string, visited) ==
    LET here == IF Len(current_string) >= SHORT /\ contains(dict, current_string)
                THEN {current_string} ELSE {}
    IN IF Len(current_string) > size * size THEN here
       ELSE here \cup UNION
              { bds_dfs(board, size, dict, p[1], p[2],
                        Append(current_string, board[p[1]][p[2]]), visited \cup {p}) :
                    p \in Neighbours(size, row, col, visited) }

bds_dfs(board, size, dict, row, col, current_string, visited) ==
    LET here == IF Len(current_string) > SHORT /\ contains(dict, current_string)
                THEN {current_string} ELSE {}
    IN IF Len(current_string) > size * size THEN here
       ELSE here \cup UNION
              { bds_dfs(board, size, dict, p[1], p[2],
                        Append(current_string, board[p[1]][p[2]]), visited \cup {p}) :
                    p \in Neighbours(size, row, col, visited) }

board_driven_search(board, size, dict) ==
    UNION { bds_dfs(board, size, dict, row, col, <<board[row][col]>>, {<<row, col>>}) :
              row \in 0..(size - 1), col \in 0..(size - 1) }

\* dictionary_driven_search's dfs.
RECURSIVE dds_dfs(_, _, _, _, _, _, _)

\* Mutant of dds_dfs: a branch is cut when the string is no word, not when
\* it is no prefix.
dds_dfs_prune_non_words(board, size, dict, row, col, current_string, visited) ==
    IF ~contains(dict, current_string) THEN {}
    ELSE (IF Len(current_string) > SHORT /\ contains(dict, current_string)
          THEN {current_string} ELSE {})
         \cup UNION
              { dds_dfs(board, size, dict, p[1], p[2],
                        Append(current_string, board[p[1]][p[2]]), visited \cup {p}) :
                    p \in Neighbours(size, row, col, visited) }

\* Mutant of dds_dfs: the cell stepped onto is not added to visited.
dds_dfs_forgets_visited(board, size, dict, row, col, current_string, visited) ==
    IF ~is_prefix(dict, current_string) THEN {}
    ELSE (IF Len(current_string) > SHORT /\ contains(dict, current_string)
          THEN {current_string} ELSE {})
         \cup UNION
              { dds_dfs(board, size, dict, p[1], p[2],
                        Append(current_string, board[p[1]][p[2]]), visited) :
                    p \in Neighbours(size, row, col, visited) }

dds_dfs(board, size, dict, row, col, current_string, visited) ==
    IF ~is_prefix(dict, current_string) THEN {}
    ELSE (IF Len(current_string) > SHORT /\ contains(dict, current_string)
          THEN {current_string} ELSE {})
         \cup UNION
              { dds_dfs(board, size, dict, p[1], p[2],
                        Append(current_string, board[p[1]][p[2]]), visited \cup {p}) :
                    p \in Neighbours(size, row, col, visited) }

dictionary_driven_search(board, size, dict) ==
    UNION { dds_dfs(board, size, dict, row, col, <<board[row][col]>>, {<<row, col>>}) :
              row \in 0..(size - 1), col \in 0..(size - 1) }

\* Python's truth value of an Optional list: None and the empty list are
\* both false.
Truthy(result) == result # None /\ result[1] # <<>>

\* path.pop()
Pop(path) == SubSeq(path, 1, Len(path) - 1)

\* find_word_in_board's dfs.  The list `path` is shared by all the calls of
\* one start cell, so a call returns its result together with the list as
\* the call leaves it.  find_dirs is the loop over the directions from the
\* d-th on, followed by the pop.
RECURSIVE find_dfs(_, _, _, _, _, _, _)
RECURSIVE find_dirs(_, _, _, _, _, _, _, _)
find_dirs(brd, sz, word, row, col, index, path, d) ==
    IF d > 8 THEN [result |-> None, path |-> Pop(path)]
    ELSE LET r == find_dfs(brd, sz, word, row + Directions[d][1], col + Directions[d][2],
                           index + 1, path)
         IN IF Truthy(r.result) THEN r
            ELSE find_dirs(brd, sz, word, row, col, index, r.path, d + 1)

\* Mutant of find_dfs: a cell already on the path may be stepped on again.
find_dfs_revisits(brd, sz, word, row, col, index, path) ==
    IF index = Len(word) THEN [result |-> Some(path), path |-> path]
    ELSE IF ~InBoard(sz, row, col) THEN [result |-> None, path |-> path]
    ELSE IF brd[row][col] # word[index + 1] THEN [result |-> None, path |-> path]
    ELSE find_dirs(brd, sz, word, row, col, index, Append(path, <<row, col>>), 1)

find_dfs(brd, sz, word, row, col, index, path) ==
    IF index = Len(word) THEN [result |-> Some(path), path |-> path]
    ELSE IF ~InBoard(sz, row, col) \/ \E i \in 1..Len(path) : path[i] = <<row, col>>
    THEN [result |-> None, path |-> path]
    ELSE IF brd[row][col] # word[index + 1] THEN [result |-> None, path |-> path]
    ELSE find_dirs(brd, sz, word, row, col, index, Append(path, <<row, col>>), 1)

\* The loop over the start cells, row by row, from the k-th cell on.
RECURSIVE find_starts(_, _, _, _)

\* Mutant of find_starts: the search gives up after the first start cell.
find_starts_first_cell_only(brd, sz, word, k) ==
    IF k >= sz * sz THEN None
    ELSE find_dfs(brd, sz, word, k \div sz, k % sz, 0, <<>>).result

find_starts(brd, sz, word, k) ==
    IF k >= sz * sz THEN None
    ELSE LET r == find_dfs(brd, sz, word, k \div sz, k % sz, 0, <<>>)
         IN IF Truthy(r.result) THEN r.result ELSE find_starts(brd, sz, word, k + 1)

find_word_in_board(brd, sz, word) == find_starts(brd, sz, lower(word), 0)

(***************************************************************************)
(* State.                                                                  *)
(*   trie             the TrieDictionary under construction                *)
(*   loaded           the lines load_dictionary has read so far            *)
(*   board, size, words, dictionary, last_added_word                       *)
(*                    the fields of MyGameManager                          *)
(*   returned         the sum of add_word's return values since new_game   *)
(*   ret              the last call: its name, arguments and outcome       *)
(***************************************************************************)
VARIABLES trie, loaded, board, size, words, dictionary, last_added_word, returned, ret

vars == <<trie, loaded, board, size, words, dictionary, last_added_word, returned, ret>>
gameVars == <<board, size, words, dictionary, last_added_word, returned>>

\* The record of a call: what was called, with what, and what it returned
\* or raised.
NoError == "none"
Call(op, arg, value) == [op |-> op, arg |-> arg, value |-> value, raised |-> NoError]
Raise(op, arg, exc) == [op |-> op, arg |-> arg, value |-> None, raised |-> exc]
NoCall == Call("none", None, None)

\* MyGameManager.__init__
GameInit ==
    /\ board = <<>>
    /\ size = 0
    /\ words = <<>>
    /\ dictionary = None
    /\ last_added_word = None
    /\ returned = 0

(***************************************************************************)
(* The dictionary on its own: loading word files and querying the trie.    *)
(***************************************************************************)
MaxLineLen == 2
MaxFileLines == 2

\* The characters of the word files: a space, an upper-case and a
\* lower-case letter.
DictChars == {Ch.sp, Ch.A, Ch.b}

StringsOver(chars, n) == UNION { [1..k -> chars] : k \in 0..n }

\* A words file is its sequence of lines (without the line ends).
DictLines == StringsOver(DictChars, MaxLineLen)
DictFiles == UNION { [1..k -> DictLines] : k \in 0..MaxFileLines }

\* The strings the trie is queried with.
Queries ==
    { <<>>, <<Ch.A>>, <<Ch.a>>, <<Ch.b>>,
      <<Ch.A, Ch.b>>, <<Ch.a, Ch.b>>, <<Ch.b, Ch.A>>, <<Ch.b, Ch.b>> }

DictInit ==
    /\ trie = EmptyTrie
    /\ loaded = {}
    /\ ret = NoCall
    /\ GameInit

\* load_dictionary(filename) on a file that can be read, into a dictionary
\* that holds nothing yet.
LoadDictionary ==
    /\ trie = EmptyTrie
    /\ \E file \in DictFiles :
        /\ trie' = load_dictionary(trie, file)
        /\ loaded' = loaded \cup Range(file)
        /\ ret' = Call("load_dictionary", file, None)
        /\ UNCHANGED gameVars

\* load_dictionary(filename) on a file that cannot be opened: OSError.
LoadDictionaryFails ==
    /\ ret' = Raise("load_dictionary", None, "OSError")
    /\ UNCHANGED <<trie, loaded, gameVars>>

\* The queries read the trie and change nothing, so the answers they can
\* give are all seen by asking once after each load.
QueryDue == ret.op \in {"none", "load_dictionary"}

\* traverse(prefix) is not None, i.e. is_prefix(prefix)
IsPrefix ==
    \E q \in Queries :
        /\ QueryDue
        /\ ret' = Call("is_prefix", q, is_prefix(trie, q))
        /\ UNCHANGED <<trie, loaded, gameVars>>

\* contains(word)
Contains ==
    \E q \in Queries :
        /\ QueryDue
        /\ ret' = Call("contains", q, contains(trie, q))
        /\ UNCHANGED <<trie, loaded, gameVars>>

\* list(iter(dictionary))
Iterate ==
    /\ QueryDue
    /\ ret' = Call("iter", None, iter(trie))
    /\ UNCHANGED <<trie, loaded, gameVars>>

DictNext == LoadDictionary \/ LoadDictionaryFails \/ IsPrefix \/ Contains \/ Iterate

SpecDict == DictInit /\ [][DictNext]_vars

\* The word a line of the file stands for, as typed and as stored.
TypedWord(line) == strip(line)
StoredWord(line) == lower(strip(line))

\* Every spelling of w in upper- and lower-case letters.
CharVariants(ch) ==
    { d \in {ch, lower_char(ch), lower_char(ch) - 32} : lower_char(d) = lower_char(ch) }

RECURSIVE CaseVariants(_)
CaseVariants(w) ==
    IF w = <<>> THEN { <<>> }
    ELSE { <<d>> \o rest : d \in CharVariants(Head(w)), rest \in CaseVariants(Tail(w)) }

Prefixes(w) == { SubSeq(w, 1, k) : k \in 0..Len(w) }

\* u comes strictly before v in the order of Python's string comparison.
LexLess(u, v) ==
    \E k \in 1..(Len(v)) :
        /\ k <= Len(u) + 1
        /\ \A j \in 1..(k - 1) : u[j] = v[j]
        /\ (k = Len(u) + 1 \/ u[k] < v[k])

\* C7: when load_dictionary has returned, every loaded word w, spelled in any
\* letter case, is contained, and every prefix of it (the empty one
\* included) is a prefix of the dictionary; whatever string contains()
\* accepts has all its prefixes accepted by is_prefix(); and the answers the
\* query operations return afterwards agree with this.
C7_LoadedWordsAndPrefixes ==
    /\ ret.op = "load_dictionary" =>
        /\ \A line \in loaded : \A v \in CaseVariants(TypedWord(line)) :
                /\ contains(trie, v)
                /\ \A p \in Prefixes(v) : is_prefix(trie, p)
        /\ \A w \in Queries \cup DictLines :
                contains(trie, w) => \A p \in Prefixes(w) : is_prefix(trie, p)
    /\ (ret.op \in {"contains", "is_prefix"}
          /\ \E line \in loaded : \E v \in CaseVariants(TypedWord(line)) :
                IF ret.op = "contains" THEN ret.arg = v ELSE ret.arg \in Prefixes(v))
        => ret.value = TRUE

\* A mixed-case word and a line with surrounding blanks were loaded, and
\* contains() was asked about the word in the other letter case.
C7_Witness ==
    /\ \E line \in loaded : TypedWord(line) # line /\ TypedWord(line) # <<>>
    /\ <<Ch.A, Ch.b>> \in loaded
    /\ ret.op = "contains" /\ ret.arg = <<Ch.a, Ch.b>> /\ ret.value = TRUE

\* C8: iterating the dictionary yields words in strictly increasing
\* lexicographic order (hence without duplicates, and a word before its
\* extensions), and the set of yielded words is the set of the loaded lines,
\* each stripped and lowercased (a blank line is the empty word).
C8_IterSortedAndComplete ==
    ret.op = "iter" =>
        /\ \A i \in 1..(Len(ret.value) - 1) : LexLess(ret.value[i], ret.value[i + 1])
        /\ \A i, j \in 1..Len(ret.value) : i # j => ret.value[i] # ret.value[j]
        /\ \A i, j \in 1..Len(ret.value) :
              (ret.value[i] # ret.value[j] /\ ret.value[i] \in Prefixes(ret.value[j])) => i < j
        /\ Range(ret.value) = { StoredWord(line) : line \in loaded }

\* The file held "b" before "A", so the root's children were inserted in
\* the order b, a; the iteration has run and yielded a before b.
C8_Witness ==
    /\ ret.op = "iter"
    /\ ret.value = << <<Ch.a>>, <<Ch.b>> >>
    /\ trie.children[<<>>] = <<Ch.b, Ch.a>>
    /\ <<Ch.A>> \in loaded
(***************************************************************************)
(* The searches on their own: a game with a board and a loaded dictionary, *)
(* on which one of the three searches is run.                              *)
(***************************************************************************)
\* The board a list of rows stands for, addressed [row][col] from 0.
MkBoard(rows) ==
    [r \in 0..(Len(rows) - 1) |-> [c \in 0..(Len(rows[r + 1]) - 1) |-> rows[r + 1][c + 1]]]

\* The letters on the boards.
BoardLetters == {Ch.c, Ch.a, Ch.t, Ch.s}

\* Every 2 x 2 board over the board letters, and the 3 x 3 boards whose
\* rows are "cat" or "sts".
SearchRows3 == { <<Ch.c, Ch.a, Ch.t>>, <<Ch.s, Ch.t, Ch.s>> }
SearchBoards ==
    { MkBoard(rows) : rows \in [1..2 -> [1..2 -> BoardLetters]] }
        \cup { MkBoard(rows) : rows \in [1..3 -> SearchRows3] }

\* The words files of the games: "cat", "cats", "Cast", "tact", "casts",
\* " acts " and a blank line.
Word == [cat |-> <<Ch.c, Ch.a, Ch.t>>,
         cats |-> <<Ch.c, Ch.a, Ch.t, Ch.s>>,
         CATS |-> <<Ch.C, Ch.A, Ch.T, Ch.S>>,
         Cast |-> <<Ch.C, Ch.a, Ch.s, Ch.t>>,
         cast |-> <<Ch.c, Ch.a, Ch.s, Ch.t>>,
         tact |-> <<Ch.t, Ch.a, Ch.c, Ch.t>>,
         casts |-> <<Ch.c, Ch.a, Ch.s, Ch.t, Ch.s>>,
         acts |-> <<Ch.a, Ch.c, Ch.t, Ch.s>>,
         acts_sp |-> <<Ch.sp, Ch.a, Ch.c, Ch.t, Ch.s, Ch.sp>>]

GameDictFiles ==
    { <<Word.cat, Word.cats>>,
      <<Word.Cast, Word.tact, <<>> >>,
      <<Word.casts, Word.acts_sp>> }

\* The words the games are asked about.
GameWords ==
    { <<>>, Word.cat, Word.cats, Word.CATS, Word.cast, Word.tact, Word.casts, Word.acts }

\* self.dictionary refers to the one TrieDictionary of the model.
TrieRef == Some("trie")

SearchInit ==
    /\ \E file \in GameDictFiles :
          /\ trie = load_dictionary(EmptyTrie, file)
          /\ loaded = Range(file)
    /\ board \in SearchBoards
    /\ size = Cardinality(DOMAIN board)
    /\ words = <<>>
    /\ dictionary = TrieRef
    /\ last_added_word = None
    /\ returned = 0
    /\ ret = NoCall

DictionaryDrivenSearch ==
    /\ ret = NoCall
    /\ dictionary # None
    /\ ret' = Call("dictionary_driven_search", None,
                    dictionary_driven_search(board, size, trie))
    /\ UNCHANGED <<trie, loaded, gameVars>>

BoardDrivenSearch ==
    /\ ret = NoCall
    /\ dictionary # None
    /\ ret' = Call("board_driven_search", None,
                    board_driven_search(board, size, trie))
    /\ UNCHANGED <<trie, loaded, gameVars>>

FindWordInBoard ==
    /\ ret = NoCall
    /\ \E w \in GameWords :
          ret' = Call("find_word_in_board", w, find_word_in_board(board, size, w))
    /\ UNCHANGED <<trie, loaded, gameVars>>

SearchNext == DictionaryDrivenSearch \/ BoardDrivenSearch \/ FindWordInBoard

SpecSearch == SearchInit /\ [][SearchNext]_vars
\* The cells of a board of the given size, and 8-directional adjacency.
Cells(sz) == (0..(sz - 1)) \X (0..(sz - 1))
Abs(n) == IF n < 0 THEN -n ELSE n
Adjacent(p, q) == p # q /\ Abs(p[1] - q[1]) <= 1 /\ Abs(p[2] - q[2]) <= 1

\* The simple 8-adjacent paths on the board that spell the first k letters
\* of w, built letter by letter.
RECURSIVE PathsSpellingUpTo(_, _, _, _)
PathsSpellingUpTo(brd, sz, w, k) ==
    IF k = 0 THEN { <<>> }
    ELSE { Append(p, q) : <<p, q>> \in
             { pq \in PathsSpellingUpTo(brd, sz, w, k - 1) \X Cells(sz) :
                 /\ brd[pq[2][1]][pq[2][2]] = w[k]
                 /\ \A i \in 1..(k - 1) : pq[1][i] # pq[2]
                 /\ k > 1 => Adjacent(pq[1][k - 1], pq[2]) } }

PathsSpelling(brd, sz, w) == PathsSpellingUpTo(brd, sz, w, Len(w))

\* The order in which a depth-first search meets a path: its start cell in
\* row-major order, then at each step the direction taken, in the order up,
\* down, left, right, up-left, up-right, down-left, down-right.
StepOrder ==
    [dr \in -1..1 |-> [dc \in -1..1 |->
        CASE dr = -1 /\ dc = 0 -> 1
          [] dr = 1 /\ dc = 0 -> 2
          [] dr = 0 /\ dc = -1 -> 3
          [] dr = 0 /\ dc = 1 -> 4
          [] dr = -1 /\ dc = -1 -> 5
          [] dr = -1 /\ dc = 1 -> 6
          [] dr = 1 /\ dc = -1 -> 7
          [] dr = 1 /\ dc = 1 -> 8
          [] OTHER -> 0]]

SearchKey(sz, p) ==
    [i \in 1..Len(p) |->
        IF i = 1 THEN p[1][1] * sz + p[1][2]
        ELSE StepOrder[p[i][1] - p[i - 1][1]][p[i][2] - p[i - 1][2]]]

\* Keys of equal length, compared position by position.
KeyLeq(k1, k2) ==
    \/ k1 = k2
    \/ \E i \in 1..Len(k1) : k1[i] < k2[i] /\ \A j \in 1..(i - 1) : k1[j] = k2[j]

FirstPath(brd, sz, w) ==
    CHOOSE p \in PathsSpelling(brd, sz, w) :
        \A q \in PathsSpelling(brd, sz, w) : KeyLeq(SearchKey(sz, p), SearchKey(sz, q))

\* path is a simple 8-adjacent path on the board that spells w.
IsPathSpelling(path, w, brd, sz) ==
    /\ Len(path) = Len(w)
    /\ \A i \in 1..Len(path) :
          /\ path[i] \in Cells(sz)
          /\ brd[path[i][1]][path[i][2]] = w[i]
          /\ i > 1 => Adjacent(path[i - 1], path[i])
    /\ \A i, j \in 1..Len(path) : i # j => path[i] # path[j]

StoredWords == { n \in DOMAIN trie.children : n \in trie.is_word }

\* C1: on the same board and dictionary, dictionary_driven_search() and
\* board_driven_search() return the same set of words.
C1_SearchesAgree ==
    /\ ret.op = "dictionary_driven_search"
          => ret.value = board_driven_search(board, size, trie)
    /\ ret.op = "board_driven_search"
          => ret.value = dictionary_driven_search(board, size, trie)

\* The dictionary-driven search has run on a 3 x 3 board and found two
\* words, one of which the other is no prefix of.
C1_Witness ==
    /\ ret.op = "dictionary_driven_search"
    /\ size = 3
    /\ ret.value = {Word.casts, Word.acts}

\* C2 as stated: find_word_in_board(w) returns a path iff w is in the set
\* board_driven_search() returns.
C2_LocateIffInBoardSearch ==
    ret.op = "find_word_in_board"
        => (ret.value # None <=> ret.arg \in board_driven_search(board, size, trie))

\* C2, amended: lowercased w is in the set board_driven_search() returns iff
\* find_word_in_board(w) returns a path, w has more than SHORT letters and
\* the dictionary contains w.
C2_LocateVsBoardSearch ==
    ret.op = "find_word_in_board"
        => (lower(ret.arg) \in board_driven_search(board, size, trie)
              <=> (ret.value # None /\ Len(ret.arg) > SHORT /\ contains(trie, ret.arg)))

\* "CATS" was located on a board whose dictionary holds "cats".
C2_Witness ==
    /\ ret.op = "find_word_in_board"
    /\ ret.arg = Word.CATS
    /\ ret.value # None
    /\ contains(trie, ret.arg)

\* C3: a path find_word_in_board(w) returns has len(w) positions, all on the
\* board, no position twice, consecutive positions 8-adjacent, and the
\* letter at the i-th position is the i-th letter of lowercased w.
C3_ReturnedPathSpellsWord ==
    (ret.op = "find_word_in_board" /\ ret.value # None) =>
        /\ Len(ret.value[1]) = Len(ret.arg)
        /\ IsPathSpelling(ret.value[1], lower(ret.arg), board, size)

\* A five-letter word was located on a 3 x 3 board.
C3_Witness ==
    /\ ret.op = "find_word_in_board"
    /\ size = 3
    /\ ret.arg = Word.casts
    /\ ret.value # None

\* C4: find_word_in_board(w) returns the first path spelling lowercased w
\* that a depth-first search meets (start cells in row-major order,
\* neighbours in the order up, down, left, right, up-left, up-right,
\* down-left, down-right), and None exactly when no simple 8-adjacent path
\* spells w; on the board [[c,a],[t,s]] "cat" is found at (0,0),(0,1),(1,0).
C4_FirstPathOrNone ==
    ret.op = "find_word_in_board" =>
        /\ ret.value = IF PathsSpelling(board, size, lower(ret.arg)) = {} THEN None
                       ELSE Some(FirstPath(board, size, lower(ret.arg)))
        /\ (board = MkBoard(<< <<Ch.c, Ch.a>>, <<Ch.t, Ch.s>> >>) /\ ret.arg = Word.cat)
              => ret.value = Some(<< <<0, 0>>, <<0, 1>>, <<1, 0>> >>)

\* What C4 says of every word that has a letter.
C4_FirstPathOrNoneOfNonEmptyWord ==
    (ret.op = "find_word_in_board" /\ ret.arg # <<>>) => C4_FirstPathOrNone

\* The board and dictionary of the scenario.
Scenario ==
    /\ board = MkBoard(<< <<Ch.c, Ch.a>>, <<Ch.t, Ch.s>> >>)
    /\ loaded = {Word.cat, Word.cats}
    /\ ret.op \in {"dictionary_driven_search", "board_driven_search"}

\* C5 as stated: on the board [[c,a],[t,s]] with the dictionary {cat, cats}
\* both searches return a set that contains "cat": {cat} or {cat, cats}.
C5_ScenarioContainsCat ==
    Scenario => ret.value \in { {Word.cat}, {Word.cat, Word.cats} }

\* C5, amended: there both searches return {cats}; "cats" is reachable, and
\* "cat" has no more than SHORT letters.
C5_ScenarioReturnsCats ==
    Scenario => ret.value = {Word.cats}

\* The board-driven search has run in the scenario.
C5_Witness ==
    Scenario /\ ret.op = "board_driven_search" /\ Word.cats \in ret.value

\* C6: dictionary_driven_search() returns exactly the strings that some
\* simple 8-adjacent path on the board spells, that have more than SHORT
\* letters and that the dictionary contains.
C6_DictionarySearchExact ==
    ret.op = "dictionary_driven_search" =>
        ret.value =
            { w \in StoredWords \cup { lower(g) : g \in GameWords } \cup ret.value :
                /\ PathsSpelling(board, size, w) # {}
                /\ Len(w) > SHORT
                /\ contains(trie, w) }

\* The search has run on a 3 x 3 board that has every letter of the
\* dictionary's word "tact" and yet does not spell it.
C6_Witness ==
    /\ ret.op = "dictionary_driven_search"
    /\ size = 3
    /\ Word.tact \in StoredWords
    /\ Word.tact \notin ret.value
    /\ \A i \in 1..4 : \E q \in Cells(size) : board[q[1]][q[2]] = Word.tact[i]
(***************************************************************************)
(* The game: a dictionary is loaded, games are started on it, boards are   *)
(* set, words are added.                                                   *)
(***************************************************************************)
\* n times the character c
Rep(c, n) == [i \in 1..n |-> c]

\* The cube files, as their lines.  The first has exactly four usable
\* cubes (one in upper case, one with blanks around it, one with two
\* different letters) and a line that is no cube; the second has three
\* usable cubes and a line of five letters.
CubeFiles ==
    { << Rep(Ch.C, 6), <<Ch.sp>> \o Rep(Ch.a, 6) \o <<Ch.sp>>, Rep(Ch.t, 6),
         Rep(Ch.s, 5) \o <<Ch.t>>, Word.cat >>,
      << Rep(Ch.c, 6), Rep(Ch.a, 6), Rep(Ch.t, 6), Rep(Ch.s, 5) >> }

NewGameSizes == {0, 1, 2, 3}

\* The boards set_game is given, as lists of rows.
SetGameBoards ==
    { << <<Ch.C, Ch.A>>, <<Ch.T, Ch.S>> >>,
      << <<Ch.t, Ch.a>>, <<Ch.c, Ch.t>> >>,
      << <<Ch.c, Ch.a, Ch.t>>, <<Ch.s, Ch.t, Ch.s>>, <<Ch.c, Ch.a, Ch.t>> >>,
      << <<Ch.c, Ch.a, Ch.t>>, <<Ch.c, Ch.a, Ch.t>>, <<Ch.c, Ch.a, Ch.t>> >> }

IsCube(f) == Len(f) = CUBE_SIDES

\* Mutant of Cubes: every line of the file counts as a cube.
Cubes_every_line(cubefile) == [i \in 1..Len(cubefile) |-> lower(strip(cubefile[i]))]

\* The cubes of a cube file: its stripped, lowercased lines of CUBE_SIDES
\* letters.
Cubes(cubefile) ==
    SelectSeq([i \in 1..Len(cubefile) |-> lower(strip(cubefile[i]))], IsCube)

\* One random.choice for each of the cubes cs.
RECURSIVE FaceChoices(_)
FaceChoices(cs) ==
    IF cs = <<>> THEN { <<>> }
    ELSE { <<x>> \o rest : x \in Range(Head(cs)), rest \in FaceChoices(Tail(cs)) }

\* The boards new_game can make of the cubes: random.shuffle puts them in
\* any order, the cell [c][r] gets a face of the cube r * size + c.
NewGameBoards(cubes, sz) ==
    { [c \in 0..(sz - 1) |-> [r \in 0..(sz - 1) |-> f[r * sz + c + 1]]] :
        f \in UNION { FaceChoices([i \in 1..(sz * sz) |-> cubes[perm[i]]]) :
                        perm \in Permutations(1..Len(cubes)) } }

\* new_game(size, cubefile, dictionary) on a cube file that can be read,
\* with the model's TrieDictionary.
NewGame ==
    \E sz \in NewGameSizes, cubefile \in CubeFiles :
        LET cubes == Cubes(cubefile) IN
        IF sz < 2 \/ Len(cubes) < sz * sz
        THEN /\ ret' = Raise("new_game", <<sz, cubefile>>, "ValueError")
             /\ UNCHANGED <<trie, loaded, gameVars>>
        ELSE /\ board' \in NewGameBoards(cubes, sz)
             /\ size' = sz
             /\ words' = <<>>
             /\ dictionary' = TrieRef
             /\ last_added_word' = None
             /\ returned' = 0
             /\ ret' = Call("new_game", <<sz, cubefile>>, None)
             /\ UNCHANGED <<trie, loaded>>

\* new_game on a cube file that cannot be opened: OSError.
NewGameUnreadable ==
    \E sz \in NewGameSizes :
        /\ ret' = Raise("new_game", <<sz, None>>, "OSError")
        /\ UNCHANGED <<trie, loaded, gameVars>>

\* set_game(board)
SetGame ==
    \E rows \in SetGameBoards :
        /\ board' = MkBoard([r \in 1..Len(rows) |-> lower(rows[r])])
        /\ size' = Len(rows)
        /\ ret' = Call("set_game", rows, None)
        /\ UNCHANGED <<trie, loaded, words, dictionary, last_added_word, returned>>

\* Mutant of score: the lengths are summed as they are.
RECURSIVE score_of_lengths(_)
score_of_lengths(ws) == IF ws = <<>> THEN 0 ELSE Len(Head(ws)) + score_of_lengths(Tail(ws))

\* sum([len(word) - SHORT for word in self.words])
RECURSIVE score(_)
score(ws) == IF ws = <<>> THEN 0 ELSE (Len(Head(ws)) - SHORT) + score(Tail(ws))

\* add_word(word)
AddWord ==
    \E w \in GameWords :
        LET word == lower(w) IN
        IF Len(word) > SHORT /\ word \notin Range(words)
        THEN IF dictionary = None
             THEN /\ ret' = Raise("add_word", w, "AttributeError")
                  /\ UNCHANGED <<trie, loaded, gameVars>>
             ELSE LET location == IF contains(trie, word)
                                  THEN find_word_in_board(board, size, word)
                                  ELSE None
                  IN IF contains(trie, word) /\ location # None
                     THEN /\ last_added_word' = location
                          /\ words' = Append(words, word)
                          /\ returned' = returned + (Len(word) - SHORT)
                          /\ ret' = Call("add_word", w, Len(word) - SHORT)
                          /\ UNCHANGED <<trie, loaded, board, size, dictionary>>
                     ELSE /\ ret' = Call("add_word", w, 0)
                          /\ UNCHANGED <<trie, loaded, gameVars>>
        ELSE /\ ret' = Call("add_word", w, 0)
             /\ UNCHANGED <<trie, loaded, gameVars>>

\* get_score()
GetScore ==
    /\ ret' = Call("get_score", None, score(words))
    /\ UNCHANGED <<trie, loaded, gameVars>>

\* get_last_added_word()
GetLastAddedWord ==
    /\ ret' = Call("get_last_added_word", None, last_added_word)
    /\ UNCHANGED <<trie, loaded, gameVars>>

\* load_dictionary on one of the games' words files, into the dictionary
\* while it holds nothing yet.
LoadGameDictionary ==
    /\ trie = EmptyTrie
    /\ \E file \in GameDictFiles :
        /\ trie' = load_dictionary(trie, file)
        /\ loaded' = loaded \cup Range(file)
        /\ ret' = Call("load_dictionary", file, None)
        /\ UNCHANGED gameVars

Init == DictInit

Next ==
    \/ LoadGameDictionary
    \/ NewGame
    \/ NewGameUnreadable
    \/ SetGame
    \/ AddWord
    \/ GetScore
    \/ GetLastAddedWord

Spec == Init /\ [][Next]_vars
\* The number of usable cubes of a cube file: its lines that have exactly
\* six characters between the surrounding blanks.
UsableCubes(cubefile) ==
    Cardinality({ i \in 1..Len(cubefile) : Len(strip(cubefile[i])) = 6 })

IsLetterBoard(brd, n) ==
    /\ DOMAIN brd = 0..(n - 1)
    /\ \A r \in 0..(n - 1) :
          /\ DOMAIN brd[r] = 0..(n - 1)
          /\ \A c \in 0..(n - 1) : brd[r][c] \in 97..122

\* What C9 says of one call of new_game(sz, cubefile, dictionary) whose cube
\* file can be read.
C9_NewGameStep ==
    (ret'.op = "new_game" /\ ret'.arg[2] # None) =>
        LET sz == ret'.arg[1]
            usable == UsableCubes(ret'.arg[2])
        IN /\ (sz = 2 /\ usable = 4) =>
                 /\ ret'.raised = NoError
                 /\ size' = 2
                 /\ IsLetterBoard(board', 2)
           /\ (sz < 2 \/ usable < sz * sz) =>
                 /\ ret'.raised = "ValueError"
                 /\ UNCHANGED <<board, size, words, dictionary, last_added_word>>

\* C9: new_game succeeds for size 2 with exactly 4 usable cubes and makes a
\* 2 x 2 board; for a size below 2, or with fewer than size * size usable
\* cubes, it raises ValueError and leaves board, size, words, dictionary and
\* last_added_word as they were.
C9_NewGameAcceptsOrRejects == [][C9_NewGameStep]_vars

\* new_game was rejected in a game that had a board and an accepted word.
C9_Witness ==
    /\ ret.op = "new_game"
    /\ ret.raised = "ValueError"
    /\ ret.arg[1] = 2
    /\ words # <<>>
    /\ last_added_word # None

\* What C10 says of one call of add_word(w) in a game that new_game has
\* started, and of the state the call leaves.
C10_AddWordStep ==
    /\ (ret'.op = "add_word" /\ dictionary # None) =>
          LET w == ret'.arg
              accepted ==
                  /\ Len(w) > 3
                  /\ \A i \in 1..Len(words) : words[i] # lower(w)
                  /\ contains(trie, w)
                  /\ PathsSpelling(board, size, lower(w)) # {}
          IN IF accepted
             THEN /\ ret'.raised = NoError
                  /\ ret'.value = Len(w) - 3
                  /\ words' = Append(words, lower(w))
                  /\ last_added_word' # None
                  /\ IsPathSpelling(last_added_word'[1], lower(w), board, size)
             ELSE /\ ret'.raised = NoError
                  /\ ret'.value = 0
                  /\ UNCHANGED <<words, last_added_word>>
    /\ \A i, j \in 1..Len(words') : i # j => words'[i] # words'[j]
    /\ score(words') = returned'
    /\ ret'.op = "get_score" => ret'.value = returned'

\* C10: after new_game, add_word(w) returns len(w) - 3, appends lowercased
\* w to words and sets last_added_word to a path of w exactly when w has
\* more than 3 letters, was not accepted before, is in the dictionary and is
\* on the board; otherwise it returns 0 and leaves words and
\* last_added_word alone.  words never holds a word twice, and get_score()
\* is the sum of the values add_word has returned since new_game.
C10_AddWordScores == [][C10_AddWordStep]_vars

\* A second word, of five letters, was accepted on a 3 x 3 board, and the
\* score was read.
C10_Witness ==
    /\ ret.op = "get_score"
    /\ ret.value = 3
    /\ words = <<Word.acts, Word.casts>>
    /\ size = 3
====
